---- MODULE Spec2Model ----
(***************************************************************************)
(* Model of Ukraine_graph_generator.py: the Streamlit page script that     *)
(* downloads the missile-attack dataset, normalises it, aggregates it per  *)
(* day and per calendar month, filters both tables by a date range and     *)
(* renders them.                                                           *)
(*                                                                         *)
(* Text values (timestamps, month labels, percentage strings) are           *)
(* sequences of one-character strings, so that formatting and parsing are  *)
(* computed character by character.  A calendar date is <<y, m, d>>, a     *)
(* pandas Timestamp is <<y, m, d, hh, mm>>.  A DataFrame is a record       *)
(* [columns, rows]; DataFrames live in a heap of objects, and the script's *)
(* local names hold references, so that in-place mutation and .copy() are  *)
(* distinguishable.                                                        *)
(*                                                                         *)
(* Float arithmetic is modelled exactly (as a fraction); for the counts   *)
(* the model draws, every quotient times 100 that ends in .5 is exactly   *)
(* representable in binary floating point, so numpy's rounding sees the   *)
(* same ties.                                                              *)
(***************************************************************************)
EXTENDS Integers, Sequences, FiniteSets, TLC

\* Largest number of event rows in the downloaded CSV file.
MaxRows == 2

-----------------------------------------------------------------------------
(* Text: str(int), zero padded fields, int(...), str.split                  *)

DigitChars == <<"0", "1", "2", "3", "4", "5", "6", "7", "8", "9">>

Digit(n) == DigitChars[n + 1]

DigitValue(c) == CHOOSE i \in 0..9 : DigitChars[i + 1] = c

RECURSIVE IntStr(_)
\* astype(str) of an integer
IntStr(n) ==
    IF n < 0 THEN <<"-">> \o IntStr(-n)
    ELSE IF n < 10 THEN <<Digit(n)>>
    ELSE IntStr(n \div 10) \o <<Digit(n % 10)>>

RECURSIVE ZeroPad(_, _)
\* a fixed-width, zero padded decimal field (%Y is 4 wide, %m %d %H %M are 2 wide)
ZeroPad(n, w) ==
    IF w = 0 THEN <<>> ELSE ZeroPad(n \div 10, w - 1) \o <<Digit(n % 10)>>

RECURSIVE ParseInt(_)
ParseInt(s) ==
    IF s = <<>> THEN 0
    ELSE 10 * ParseInt(SubSeq(s, 1, Len(s) - 1)) + DigitValue(s[Len(s)])

RECURSIVE Split(_, _)
\* str.split(sep): the fields between the occurrences of sep
Split(s, sep) ==
    LET at == {i \in 1..Len(s) : s[i] = sep}
    IN  IF at = {} THEN <<s>>
        ELSE LET i == CHOOSE j \in at : \A k \in at : j <= k
             IN  <<SubSeq(s, 1, i - 1)>> \o Split(SubSeq(s, i + 1, Len(s)), sep)

-----------------------------------------------------------------------------
(* Calendar: datetime.date and pandas Timestamp                             *)

IsLeap(y) == (y % 4 = 0 /\ y % 100 # 0) \/ y % 400 = 0

\* the 31-day months taken to be 30 days long
ThirtyDayMonth(y, m) == IF m = 2 THEN (IF IsLeap(y) THEN 29 ELSE 28) ELSE 30

DaysInMonth(y, m) ==
    IF m = 2 THEN (IF IsLeap(y) THEN 29 ELSE 28)
    ELSE IF m \in {4, 6, 9, 11} THEN 30 ELSE 31

RECURSIVE TupleLess(_, _)
\* lexicographic order of equally long integer tuples: the order of
\* datetime.date and of Timestamp
TupleLess(a, b) ==
    IF a = <<>> THEN FALSE
    ELSE IF Head(a) # Head(b) THEN Head(a) < Head(b)
    ELSE TupleLess(Tail(a), Tail(b))

TupleLE(a, b) == a = b \/ TupleLess(a, b)

\* str(date) and the date part of the CSV's time_start: YYYY-MM-DD
IsoDate(d) == ZeroPad(d[1], 4) \o <<"-">> \o ZeroPad(d[2], 2) \o <<"-">> \o ZeroPad(d[3], 2)

\* the time-of-day part of the CSV's time_start: HH:MM
IsoClock(hh, mm) == ZeroPad(hh, 2) \o <<":">> \o ZeroPad(mm, 2)

\* pd.to_datetime of an ISO text: "YYYY-MM", "YYYY-MM-DD" or "YYYY-MM-DD HH:MM";
\* missing fields default to day 1 and midnight
ToDatetime(s) ==
    LET parts == Split(s, " ")
        df    == Split(parts[1], "-")
        tf    == IF Len(parts) >= 2 THEN Split(parts[2], ":") ELSE <<>>
    IN  << ParseInt(df[1]),
           ParseInt(df[2]),
           IF Len(df) >= 3 THEN ParseInt(df[3]) ELSE 1,
           IF Len(tf) >= 1 THEN ParseInt(tf[1]) ELSE 0,
           IF Len(tf) >= 2 THEN ParseInt(tf[2]) ELSE 0 >>

\* pd.to_datetime of a datetime.date: midnight of that day
DateToDatetime(d) == <<d[1], d[2], d[3], 0, 0>>

\* Series.dt.date
DtDate(ts) == <<ts[1], ts[2], ts[3]>>

\* Series.dt.strftime('%Y-%m')
StrftimeYm(ts) == ZeroPad(ts[1], 4) \o <<"-">> \o ZeroPad(ts[2], 2)

-----------------------------------------------------------------------------
(* DataFrames: [columns |-> <<names>>, rows |-> <<row, ...>>], a row being a *)
(* function from the column names to the cell values                        *)

RawColumns ==
    <<"time_start", "time_end", "model", "launch_place", "target",
      "destroyed_details", "carrier", "launched", "destroyed", "source">>

Range(s) == {s[i] : i \in 1..Len(s)}

RECURSIVE SumColumn(_, _)
\* Series.sum() of an integer column
SumColumn(rows, col) ==
    IF rows = <<>> THEN 0 ELSE Head(rows)[col] + SumColumn(Tail(rows), col)

RECURSIVE SortDates(_)
\* the ascending sequence of a set of dates (groupby sorts its keys)
SortDates(S) ==
    IF S = {} THEN <<>>
    ELSE LET lo == CHOOSE d \in S : \A e \in S : TupleLE(d, e)
         IN  <<lo>> \o SortDates(S \ {lo})

\* no copy: the caller's own object is handed on
AliasFrame(heap, ref) == [heap |-> heap, ref |-> ref]

\* DataFrame.copy(): a new object with the same columns and values
CopyFrame(heap, ref) == [heap |-> Append(heap, heap[ref]), ref |-> Len(heap) + 1]

\* remove_time: overwrites time_start, in the frame it is given, by the text
\* before the first space
RemoveTime(df) ==
    [df EXCEPT !.rows =
        [i \in 1..Len(df.rows) |->
            [df.rows[i] EXCEPT !["time_start"] = Split(@, " ")[1]]]]

DroppedColumns ==
    {"time_end", "model", "launch_place", "target", "destroyed_details", "carrier", "source"}

\* process_dataset: drop the seven descriptive columns, rename time_start to
\* date, and replace each date text by the datetime.date it parses to
ProcessDataset(df) ==
    LET kept    == SelectSeq(df.columns, LAMBDA c : c \notin DroppedColumns)
        renamed == [i \in 1..Len(kept) |-> IF kept[i] = "time_start" THEN "date" ELSE kept[i]]
        Cell(r, c) == IF c = "date" THEN DtDate(ToDatetime(r["time_start"])) ELSE r[c]
    IN  [columns |-> renamed,
         rows    |-> [i \in 1..Len(df.rows) |->
                        [c \in Range(renamed) |-> Cell(df.rows[i], c)]]]

-----------------------------------------------------------------------------
(* The rate column: destroyed / launched * 100, fillna(0), round(0),        *)
(* astype(int), astype(str) + '%'.  A float is NaN, +-inf or a fraction.    *)

\* the operands exchanged: launched / destroyed * 100
RatePercentSwapped(destroyed, launched) ==
    IF destroyed = 0
    THEN (IF launched = 0 THEN [kind |-> "nan"] ELSE [kind |-> "inf"])
    ELSE [kind |-> "finite", num |-> launched * 100, den |-> destroyed]

\* float division of two integer cells, times 100
RatePercent(destroyed, launched) ==
    IF launched = 0
    THEN (IF destroyed = 0 THEN [kind |-> "nan"] ELSE [kind |-> "inf"])
    ELSE IF launched < 0
         THEN [kind |-> "finite", num |-> -(destroyed * 100), den |-> -launched]
         ELSE [kind |-> "finite", num |-> destroyed * 100, den |-> launched]

\* Series.fillna(0): replaces NaN, and only NaN
FillNa(x) == IF x.kind = "nan" THEN [kind |-> "finite", num |-> 0, den |-> 1] ELSE x

\* rounding with a tie going up
RoundHalfUp(num, den) ==
    LET q == num \div den
        r == num % den
    IN  IF 2 * r < den THEN q ELSE q + 1

\* numpy's round of num/den (den > 0): to the nearest integer, a tie to the even one
RoundHalfEven(num, den) ==
    LET q == num \div den
        r == num % den
    IN  IF 2 * r < den THEN q
        ELSE IF 2 * r > den THEN q + 1
        ELSE IF q % 2 = 0 THEN q ELSE q + 1

\* Series.round(0): infinities stay infinite
Round0(x) ==
    IF x.kind = "finite"
    THEN [kind |-> "finite", num |-> RoundHalfEven(x.num, x.den), den |-> 1]
    ELSE x

\* the float column before astype(int)
RateFloat(row) == Round0(FillNa(RatePercent(row["destroyed"], row["launched"])))

\* astype(int) raises on a column holding a non-finite value
AsTypeIntRaises(rows) == \E i \in 1..Len(rows) : RateFloat(rows[i]).kind # "finite"

\* astype(int).astype(str) + '%'
RateText(row) == IntStr(RateFloat(row).num) \o <<"%">>

\* the frame with the interception_rate column assigned (appended when new)
WithRate(df) ==
    [columns |-> IF "interception_rate" \in Range(df.columns) THEN df.columns
                 ELSE Append(df.columns, "interception_rate"),
     rows    |-> [i \in 1..Len(df.rows) |->
                    [c \in Range(df.columns) \cup {"interception_rate"} |->
                        IF c = "interception_rate" THEN RateText(df.rows[i])
                        ELSE df.rows[i][c]]]]

-----------------------------------------------------------------------------
(* aggregate_data                                                           *)

\* one row per date, holding the counts of the first event of that date only
GroupByDateFirstOnly(df) ==
    LET keys == SortDates({df.rows[i]["date"] : i \in 1..Len(df.rows)})
        Group(k) == SelectSeq(df.rows, LAMBDA r : r["date"] = k)
    IN  [columns |-> <<"date", "launched", "destroyed">>,
         rows    |-> [i \in 1..Len(keys) |->
                        [date      |-> keys[i],
                         launched  |-> Group(keys[i])[1]["launched"],
                         destroyed |-> Group(keys[i])[1]["destroyed"]]]]

\* groupby('date').agg({'launched': 'sum', 'destroyed': 'sum'}).reset_index()
GroupByDate(df) ==
    LET keys == SortDates({df.rows[i]["date"] : i \in 1..Len(df.rows)})
        Group(k) == SelectSeq(df.rows, LAMBDA r : r["date"] = k)
    IN  [columns |-> <<"date", "launched", "destroyed">>,
         rows    |-> [i \in 1..Len(keys) |->
                        [date      |-> keys[i],
                         launched  |-> SumColumn(Group(keys[i]), "launched"),
                         destroyed |-> SumColumn(Group(keys[i]), "destroyed")]]]

\* aggregate_data: the daily frame, or the exception astype(int) raises
AggregateData(df) ==
    LET daily_data == GroupByDate(df)
    IN  IF AsTypeIntRaises(daily_data.rows)
        THEN [raises |-> TRUE]
        ELSE [raises |-> FALSE, df |-> WithRate(daily_data)]

-----------------------------------------------------------------------------
(* monthly_interception_rate                                                *)

\* the Timestamp of midnight of the last day of month number k (k = 12 y + m - 1)
MonthEnd(k) ==
    LET y == k \div 12
        m == (k % 12) + 1
    IN  <<y, m, DaysInMonth(y, m), 0, 0>>

MonthNumber(ts) == 12 * ts[1] + ts[2] - 1

\* grouping by month instead of resampling: only the months that hold a row
ResampleMonthSumSkipEmpty(df) ==
    LET ks   == {MonthNumber(df.rows[i]["date"]) : i \in 1..Len(df.rows)}
        keys == SortDates({<<k>> : k \in ks})
        Bin(k) == SelectSeq(df.rows, LAMBDA r : MonthNumber(r["date"]) = k)
    IN  [columns |-> <<"date", "launched", "destroyed">>,
         rows    |-> [i \in 1..Len(keys) |->
                        [date      |-> MonthEnd(keys[i][1]),
                         launched  |-> SumColumn(Bin(keys[i][1]), "launched"),
                         destroyed |-> SumColumn(Bin(keys[i][1]), "destroyed")]]]

\* resample('M', on='date').sum().reset_index(): one bin per month end from the
\* first to the last Timestamp, a bin holding the rows after the previous month
\* end up to its own; the text column interception_rate is not kept here because
\* line 44 assigns it anew
ResampleMonthSum(df) ==
    IF df.rows = <<>>
    THEN [columns |-> <<"date", "launched", "destroyed">>, rows |-> <<>>]
    ELSE LET stamps == {df.rows[i]["date"] : i \in 1..Len(df.rows)}
             first  == CHOOSE t \in stamps : \A u \in stamps : TupleLE(t, u)
             last   == CHOOSE t \in stamps : \A u \in stamps : TupleLE(u, t)
             k0     == MonthNumber(first)
             n      == MonthNumber(last) - k0 + 1
             Bin(k) == SelectSeq(df.rows, LAMBDA r :
                          /\ TupleLess(MonthEnd(k - 1), r["date"])
                          /\ TupleLE(r["date"], MonthEnd(k)))
         IN  [columns |-> <<"date", "launched", "destroyed">>,
              rows    |-> [i \in 1..n |->
                             [date      |-> MonthEnd(k0 + i - 1),
                              launched  |-> SumColumn(Bin(k0 + i - 1), "launched"),
                              destroyed |-> SumColumn(Bin(k0 + i - 1), "destroyed")]]]

\* line 40: data['date'] = pd.to_datetime(data['date']), in the frame given
DatesToDatetime(df) ==
    [df EXCEPT !.rows =
        [i \in 1..Len(df.rows) |-> [df.rows[i] EXCEPT !["date"] = DateToDatetime(@)]]]

\* lines 42-48 on the frame line 40 left: the monthly frame, or the exception
MonthlyInterceptionRate(df) ==
    LET monthly_data == ResampleMonthSum(df)
        rated        == WithRate(monthly_data)
    IN  IF AsTypeIntRaises(monthly_data.rows)
        THEN [raises |-> TRUE]
        ELSE [raises |-> FALSE,
              df |-> [rated EXCEPT !.rows =
                        [i \in 1..Len(rated.rows) |->
                            [rated.rows[i] EXCEPT !["date"] = StrftimeYm(@)]]]]

-----------------------------------------------------------------------------
(* The range filter, lines 165-168                                          *)

\* the end date left out of the range
FilterDailyOpenEnd(df, date_range) ==
    [df EXCEPT !.rows = SelectSeq(df.rows, LAMBDA r :
        /\ TupleLE(date_range[1], r["date"])
        /\ TupleLess(r["date"], date_range[2]))]

FilterDaily(df, date_range) ==
    [df EXCEPT !.rows = SelectSeq(df.rows, LAMBDA r :
        /\ TupleLE(date_range[1], r["date"])
        /\ TupleLE(r["date"], date_range[2]))]

FilterMonthly(df, date_range) ==
    [df EXCEPT !.rows = SelectSeq(df.rows, LAMBDA r :
        /\ TupleLE(date_range[1], DtDate(ToDatetime(r["date"])))
        /\ TupleLE(DtDate(ToDatetime(r["date"])), date_range[2]))]

-----------------------------------------------------------------------------
(* The inputs: what the download may put into missile_attacks_daily.csv     *)

\* time_start cells of the CSV, with and without a time of day
TimeStarts ==
    { IsoDate(<<2022, 11, 30>>) \o <<" ">> \o IsoClock(23, 30),
      IsoDate(<<2023, 1, 1>>),
      IsoDate(<<2023, 1, 31>>) \o <<" ">> \o IsoClock(18, 45) }

\* (launched, destroyed) cells of an event: nothing launched, destroyed without a
\* launch, all destroyed, more destroyed than launched, and two counts whose
\* percentages end in .5
EventCounts == { <<0, 0>>, <<0, 1>>, <<1, 1>>, <<1, 3>>, <<8, 1>>, <<8, 3>> }

EventRows ==
    { [time_start |-> t, time_end |-> "t", model |-> "m", launch_place |-> "p",
       target |-> "g", destroyed_details |-> "x", carrier |-> "c",
       launched |-> n[1], destroyed |-> n[2], source |-> "s"] :
      t \in TimeStarts, n \in EventCounts }

CsvFiles ==
    { [columns |-> RawColumns, rows |-> rows] :
      rows \in UNION { [1..n -> EventRows] : n \in 0..MaxRows } }

\* the days the two date_input widgets offer: the days of the events and the
\* first day of the month between them
CalendarDays ==
    { DtDate(ToDatetime(t)) : t \in TimeStarts } \cup { <<2022, 12, 1>> }

-----------------------------------------------------------------------------
(* The page script                                                          *)

VARIABLES
    dataset,                \* the CSV the dataset host serves during this session
    session_state,          \* st.session_state: a function from its keys
    csv,                    \* missile_attacks_daily.csv on disk: <<>> or <<frame>>
    pc,                     \* where the current script run is
    raised,                 \* the exception that ended the run, or "none"
    heap,                   \* the DataFrame objects of the current run
    data,                   \* the script's names: references into heap, 0 unbound
    data_processed,
    data_aggregated,
    date_range,             \* <<>> or <<start_date, end_date>>
    data_monthly_rate,
    filtered_data,
    filtered_monthly_data

vars ==
    <<dataset, session_state, csv, pc, raised, heap, data, data_processed, data_aggregated,
      date_range, data_monthly_rate, filtered_data, filtered_monthly_data>>

locals ==
    <<heap, data, data_processed, data_aggregated, date_range, data_monthly_rate,
      filtered_data, filtered_monthly_data>>

Init ==
    /\ dataset \in CsvFiles
    /\ session_state = <<>>
    /\ csv = <<>>
    /\ pc = "start"
    /\ raised = "none"
    /\ heap = <<>>
    /\ data = 0
    /\ data_processed = 0
    /\ data_aggregated = 0
    /\ date_range = <<>>
    /\ data_monthly_rate = 0
    /\ filtered_data = 0
    /\ filtered_monthly_data = 0

\* lines 117-118
InitSessionState ==
    /\ pc = "start"
    /\ session_state' =
         IF "data_loaded" \in DOMAIN session_state THEN session_state
         ELSE [k \in {"data_loaded"} |-> FALSE]
    /\ pc' = "button"
    /\ UNCHANGED <<dataset, csv, raised, locals>>

\* line 120: the button was not what triggered this run
ButtonNotPressed ==
    /\ pc = "button"
    /\ pc' = "gate"
    /\ UNCHANGED <<dataset, session_state, csv, raised, locals>>

\* lines 120-123: 'Get Data' pressed, download_dataset returns
GetDataDownloaded ==
    /\ pc = "button"
    /\ csv' = <<dataset>>
    /\ session_state' = [session_state EXCEPT !["data_loaded"] = TRUE]
    /\ pc' = "gate"
    /\ UNCHANGED <<dataset, raised, locals>>

\* the failure caught and ignored: the run goes on as if the download had worked
GetDataFailureSwallowed ==
    /\ pc = "button"
    /\ session_state' = [session_state EXCEPT !["data_loaded"] = TRUE]
    /\ pc' = "gate"
    /\ UNCHANGED <<dataset, csv, raised, locals>>

\* lines 120-122: 'Get Data' pressed, download_dataset raises (secrets,
\* authentication, network); nothing catches it, so the run ends there
GetDataFails ==
    /\ pc = "button"
    /\ raised' = "download_dataset"
    /\ pc' = "raised"
    /\ UNCHANGED <<dataset, session_state, csv, locals>>

\* lines 125-135
LoadedGate ==
    /\ pc = "gate"
    /\ pc' = IF session_state["data_loaded"] THEN "read_csv" ELSE "done"
    /\ UNCHANGED <<dataset, session_state, csv, raised, locals>>

\* line 137
ReadCsv ==
    /\ pc = "read_csv"
    /\ heap' = Append(heap, csv[1])
    /\ data' = Len(heap) + 1
    /\ pc' = "remove_time"
    /\ UNCHANGED <<dataset, session_state, csv, raised, data_processed, data_aggregated,
                   date_range, data_monthly_rate, filtered_data, filtered_monthly_data>>

\* line 140: remove_time changes the frame it is given and returns it
CallRemoveTime ==
    /\ pc = "remove_time"
    /\ LET arg == CopyFrame(heap, data)
       IN  /\ heap' = [arg.heap EXCEPT ![arg.ref] = RemoveTime(@)]
           /\ data_processed' = arg.ref
    /\ pc' = "process_dataset"
    /\ UNCHANGED <<dataset, session_state, csv, raised, data, data_aggregated, date_range,
                   data_monthly_rate, filtered_data, filtered_monthly_data>>

\* line 141: process_dataset changes the frame it is given and returns it
CallProcessDataset ==
    /\ pc = "process_dataset"
    /\ heap' = [heap EXCEPT ![data_processed] = ProcessDataset(@)]
    /\ pc' = "aggregate_data"
    /\ UNCHANGED <<dataset, session_state, csv, raised, data, data_processed, data_aggregated,
                   date_range, data_monthly_rate, filtered_data, filtered_monthly_data>>

\* line 142
CallAggregateData ==
    /\ pc = "aggregate_data"
    /\ LET r == AggregateData(heap[data_processed])
       IN  IF r.raises
           THEN /\ raised' = "aggregate_data"
                /\ pc' = "raised"
                /\ UNCHANGED <<heap, data_aggregated>>
           ELSE /\ heap' = Append(heap, r.df)
                /\ data_aggregated' = Len(heap) + 1
                /\ pc' = "date_selectors"
                /\ UNCHANGED raised
    /\ UNCHANGED <<dataset, session_state, csv, data, data_processed, date_range,
                   data_monthly_rate, filtered_data, filtered_monthly_data>>

\* Series.min() / Series.max() of the daily dates
EarliestDate(df) ==
    LET S == {df.rows[i]["date"] : i \in 1..Len(df.rows)}
    IN  CHOOSE d \in S : \A e \in S : TupleLE(d, e)

LatestDate(df) ==
    LET S == {df.rows[i]["date"] : i \in 1..Len(df.rows)}
    IN  CHOOSE d \in S : \A e \in S : TupleLE(e, d)

\* lines 144-159: of an empty frame min() and max() are NaN, which neither
\* st.date_input nor strftime accepts; otherwise each widget yields a day
\* between earliest_date and latest_date
DateSelectors ==
    /\ pc = "date_selectors"
    /\ LET df == heap[data_aggregated]
       IN  IF df.rows = <<>>
           THEN /\ raised' = "date_selectors"
                /\ pc' = "raised"
                /\ UNCHANGED date_range
           ELSE /\ \E start_date, end_date \in
                        {d \in CalendarDays : /\ TupleLE(EarliestDate(df), d)
                                              /\ TupleLE(d, LatestDate(df))} :
                      date_range' = <<start_date, end_date>>
                /\ pc' = "monthly"
                /\ UNCHANGED raised
    /\ UNCHANGED <<dataset, session_state, csv, heap, data, data_processed, data_aggregated,
                   data_monthly_rate, filtered_data, filtered_monthly_data>>

\* line 162: monthly_interception_rate changes the copy it is given (line 40)
\* and returns a new frame
CallMonthlyInterceptionRate ==
    /\ pc = "monthly"
    /\ LET arg   == CopyFrame(heap, data_aggregated)
           given == DatesToDatetime(arg.heap[arg.ref])
           r     == MonthlyInterceptionRate(given)
           h     == [arg.heap EXCEPT ![arg.ref] = given]
       IN  IF r.raises
           THEN /\ raised' = "monthly_interception_rate"
                /\ pc' = "raised"
                /\ heap' = h
                /\ UNCHANGED data_monthly_rate
           ELSE /\ heap' = Append(h, r.df)
                /\ data_monthly_rate' = Len(h) + 1
                /\ pc' = "filter"
                /\ UNCHANGED raised
    /\ UNCHANGED <<dataset, session_state, csv, data, data_processed, data_aggregated,
                   date_range, filtered_data, filtered_monthly_data>>

\* lines 165-168
RangeFilter ==
    /\ pc = "filter"
    /\ heap' = heap \o << FilterDaily(heap[data_aggregated], date_range),
                          FilterMonthly(heap[data_monthly_rate], date_range) >>
    /\ filtered_data' = Len(heap) + 1
    /\ filtered_monthly_data' = Len(heap) + 2
    /\ pc' = "render"
    /\ UNCHANGED <<dataset, session_state, csv, raised, data, data_processed, data_aggregated,
                   date_range, data_monthly_rate>>

\* lines 171-183: the charts and the two tables are drawn from the filtered frames
Render ==
    /\ pc = "render"
    /\ pc' = "done"
    /\ UNCHANGED <<dataset, session_state, csv, raised, locals>>

\* the next interaction reruns the script from the top: the names and frames
\* of the finished run are gone, st.session_state and the file stay
Rerun ==
    /\ pc \in {"done", "raised"}
    /\ pc' = "start"
    /\ raised' = "none"
    /\ heap' = <<>>
    /\ data' = 0
    /\ data_processed' = 0
    /\ data_aggregated' = 0
    /\ date_range' = <<>>
    /\ data_monthly_rate' = 0
    /\ filtered_data' = 0
    /\ filtered_monthly_data' = 0
    /\ UNCHANGED <<dataset, session_state, csv>>

Next ==
    \/ InitSessionState
    \/ ButtonNotPressed
    \/ GetDataDownloaded
    \/ GetDataFails
    \/ LoadedGate
    \/ ReadCsv
    \/ CallRemoveTime
    \/ CallProcessDataset
    \/ CallAggregateData
    \/ DateSelectors
    \/ CallMonthlyInterceptionRate
    \/ RangeFilter
    \/ Render
    \/ Rerun

Spec == Init /\ [][Next]_vars

-----------------------------------------------------------------------------
(* What the properties below read                                           *)

Loaded == "data_loaded" \in DOMAIN session_state /\ session_state["data_loaded"]

RawRows == heap[data].rows
NormalizedRows == heap[data_processed].rows
DailyRows == heap[data_aggregated].rows
MonthlyRows == heap[data_monthly_rate].rows
FilteredDailyRows == heap[filtered_data].rows
FilteredMonthlyRows == heap[filtered_monthly_data].rows

\* process_dataset has returned in this run
Normalized == data_processed # 0 /\ pc # "process_dataset"

\* a number that orders calendar dates
DayNumber(d) == 10000 * d[1] + 100 * d[2] + d[3]

\* the calendar month of a date, and of a "YYYY-MM" label, as <<y, m>>
MonthOfDate(d) == <<d[1], d[2]>>
MonthOfLabel(text) == <<ParseInt(SubSeq(text, 1, 4)), ParseInt(SubSeq(text, 6, 7))>>

IsYearMonthLabel(text) ==
    /\ Len(text) = 7
    /\ text[5] = "-"
    /\ \A i \in {1, 2, 3, 4, 6, 7} : text[i] \in Range(DigitChars)
    /\ MonthOfLabel(text)[2] \in 1..12

\* the months from a to b inclusive, in order, as <<y, m>>
MonthsFromTo(a, b) ==
    [i \in 1..(12 * b[1] + b[2] - 12 * a[1] - a[2] + 1) |->
        << (12 * a[1] + a[2] - 1 + i - 1) \div 12, ((12 * a[1] + a[2] - 1 + i - 1) % 12) + 1 >>]

RECURSIVE SumAt(_, _, _)
\* the sum of a column over the rows at the indices S
SumAt(S, rows, col) ==
    IF S = {} THEN 0
    ELSE LET i == CHOOSE j \in S : TRUE
         IN  rows[i][col] + SumAt(S \ {i}, rows, col)

SumAll(rows, col) == SumAt(1..Len(rows), rows, col)

\* the number a percentage text shows
RateNumber(text) == ParseInt(SubSeq(text, 1, Len(text) - 1))

IsPercentText(text) ==
    /\ Len(text) >= 2
    /\ text[Len(text)] = "%"
    /\ \A i \in 1..(Len(text) - 1) : text[i] \in Range(DigitChars)
    /\ text = IntStr(RateNumber(text)) \o <<"%">>

\* n is the integer nearest to destroyed / launched * 100, the even one of two
\* equally near
NearestPercent(n, destroyed, launched) ==
    LET twice == 2 * (n * launched - 100 * destroyed)
    IN  /\ twice <= launched
        /\ -twice <= launched
        /\ (twice = launched \/ -twice = launched) => n % 2 = 0

\* the rate text of an aggregate row is the rounded percentage of its totals,
\* "0%" when both totals are 0
RoundedRate(row) ==
    /\ IsPercentText(row["interception_rate"])
    /\ row["launched"] > 0 =>
         NearestPercent(RateNumber(row["interception_rate"]), row["destroyed"], row["launched"])
    /\ row["launched"] = 0 => RateNumber(row["interception_rate"]) = 0

\* a date of the normalised rows whose launched total is 0 and whose destroyed
\* total is not
ZeroLaunchedDates ==
    { d \in {NormalizedRows[i]["date"] : i \in 1..Len(NormalizedRows)} :
        LET S == {i \in 1..Len(NormalizedRows) : NormalizedRows[i]["date"] = d}
        IN  /\ SumAt(S, NormalizedRows, "launched") = 0
            /\ SumAt(S, NormalizedRows, "destroyed") # 0 }

\* one row per distinct date of the normalised rows, ascending, with the sums
DailyRowsGroupTheInput ==
    /\ {DailyRows[i]["date"] : i \in 1..Len(DailyRows)} =
         {NormalizedRows[j]["date"] : j \in 1..Len(NormalizedRows)}
    /\ \A i, j \in 1..Len(DailyRows) :
         i < j => DayNumber(DailyRows[i]["date"]) < DayNumber(DailyRows[j]["date"])
    /\ \A i \in 1..Len(DailyRows) :
         LET S == {j \in 1..Len(NormalizedRows) :
                     NormalizedRows[j]["date"] = DailyRows[i]["date"]}
         IN  /\ DailyRows[i]["launched"] = SumAt(S, NormalizedRows, "launched")
             /\ DailyRows[i]["destroyed"] = SumAt(S, NormalizedRows, "destroyed")

-----------------------------------------------------------------------------
(* C1 *)

\* C1, as stated: whenever aggregate_data has returned, the daily rows are one
\* per distinct date in ascending order with the summed counts, and a row with
\* launched > 0 has interception_rate equal to destroyed / launched * 100.
C1_ExactRate ==
    data_aggregated # 0 =>
        /\ DailyRowsGroupTheInput
        /\ \A i \in 1..Len(DailyRows) :
             DailyRows[i]["launched"] > 0 =>
                RateNumber(DailyRows[i]["interception_rate"]) * DailyRows[i]["launched"]
                    = 100 * DailyRows[i]["destroyed"]

\* C1, amended: aggregate_data raises exactly when some date has a launched
\* total of 0 and a destroyed total other than 0; otherwise it returns one row
\* per distinct date, ascending, with the summed counts, and interception_rate
\* is the text of destroyed / launched * 100 rounded to the nearest integer
\* (a tie to the even one) followed by '%'.
C1_DailyAggregate ==
    /\ raised = "aggregate_data" => ZeroLaunchedDates # {}
    /\ pc \in {"date_selectors", "monthly", "filter", "render"} => data_aggregated # 0
    /\ data_aggregated # 0 =>
        /\ ZeroLaunchedDates = {}
        /\ heap[data_aggregated].columns = <<"date", "launched", "destroyed", "interception_rate">>
        /\ DailyRowsGroupTheInput
        /\ \A i \in 1..Len(DailyRows) : RoundedRate(DailyRows[i])

\* two events of one day, 16 launched and 2 destroyed: 12.5 shown as "12%"
C1_Witness ==
    /\ data_aggregated # 0
    /\ Len(NormalizedRows) = 2
    /\ Len(DailyRows) = 1
    /\ DailyRows[1]["launched"] = 16
    /\ DailyRows[1]["destroyed"] = 2
    /\ DailyRows[1]["interception_rate"] = <<"1", "2", "%">>

-----------------------------------------------------------------------------
(* C2 *)

\* C2: for every daily and monthly aggregate row whose launched total is 0 the
\* rate computation does not raise and interception_rate is 0, whatever the
\* destroyed total.
C2_ZeroLaunchedRateIsZero ==
    /\ raised \notin {"aggregate_data", "monthly_interception_rate"}
    /\ data_aggregated # 0 =>
         \A i \in 1..Len(DailyRows) :
            DailyRows[i]["launched"] = 0 => DailyRows[i]["interception_rate"] = <<"0", "%">>
    /\ data_monthly_rate # 0 =>
         \A i \in 1..Len(MonthlyRows) :
            MonthlyRows[i]["launched"] = 0 => MonthlyRows[i]["interception_rate"] = <<"0", "%">>

-----------------------------------------------------------------------------
(* C3 *)

\* C3: the launched counts of the event rows, of the daily rows and of the
\* monthly rows have the same sum, and so have the destroyed counts.
C3_SumConservation ==
    /\ data_aggregated # 0 =>
        /\ SumAll(DailyRows, "launched") = SumAll(RawRows, "launched")
        /\ SumAll(DailyRows, "destroyed") = SumAll(RawRows, "destroyed")
    /\ data_monthly_rate # 0 =>
        /\ SumAll(MonthlyRows, "launched") = SumAll(DailyRows, "launched")
        /\ SumAll(MonthlyRows, "destroyed") = SumAll(DailyRows, "destroyed")
        /\ SumAll(MonthlyRows, "launched") = SumAll(RawRows, "launched")
        /\ SumAll(MonthlyRows, "destroyed") = SumAll(RawRows, "destroyed")

\* two events of one day, summed into one daily and one monthly row
C3_Witness ==
    /\ data_monthly_rate # 0
    /\ Len(RawRows) = 2
    /\ Len(DailyRows) = 1
    /\ Len(MonthlyRows) = 1
    /\ SumAll(RawRows, "launched") = 9
    /\ SumAll(RawRows, "destroyed") = 4

-----------------------------------------------------------------------------
(* C4 *)

\* C4: the monthly rows are exactly the calendar months from the month of the
\* earliest daily date to the month of the latest, in order, without gap or
\* duplicate; a month without a daily row has launched 0, destroyed 0 and
\* rate 0.
C4_MonthCoverage ==
    data_monthly_rate # 0 =>
        LET days   == {DailyRows[i]["date"] : i \in 1..Len(DailyRows)}
            lo     == CHOOSE d \in days : \A e \in days : DayNumber(d) <= DayNumber(e)
            hi     == CHOOSE d \in days : \A e \in days : DayNumber(e) <= DayNumber(d)
            months == MonthsFromTo(MonthOfDate(lo), MonthOfDate(hi))
        IN  /\ Len(MonthlyRows) = Len(months)
            /\ \A i \in 1..Len(MonthlyRows) :
                /\ IsYearMonthLabel(MonthlyRows[i]["date"])
                /\ MonthOfLabel(MonthlyRows[i]["date"]) = months[i]
                /\ (\A d \in days : MonthOfDate(d) # months[i]) =>
                     /\ MonthlyRows[i]["launched"] = 0
                     /\ MonthlyRows[i]["destroyed"] = 0
                     /\ MonthlyRows[i]["interception_rate"] = <<"0", "%">>

\* November and January hold events, December between them holds none
C4_Witness ==
    /\ data_monthly_rate # 0
    /\ Len(DailyRows) = 2
    /\ Len(MonthlyRows) = 3
    /\ MonthlyRows[1]["date"] = <<"2", "0", "2", "2", "-", "1", "1">>
    /\ MonthlyRows[2]["date"] = <<"2", "0", "2", "2", "-", "1", "2">>
    /\ MonthlyRows[3]["date"] = <<"2", "0", "2", "3", "-", "0", "1">>
    /\ MonthlyRows[1]["launched"] > 0
    /\ MonthlyRows[2]["launched"] = 0
    /\ MonthlyRows[2]["interception_rate"] = <<"0", "%">>

-----------------------------------------------------------------------------
(* C5 *)

\* C5: a monthly row's launched and destroyed are the sums over exactly the
\* daily rows whose date lies in that calendar month, its rate is computed from
\* these two sums, and its label is the month as "YYYY-MM".
C5_MonthlyRow ==
    data_monthly_rate # 0 =>
        \A i \in 1..Len(MonthlyRows) :
            LET S == {j \in 1..Len(DailyRows) :
                        MonthOfDate(DailyRows[j]["date"]) = MonthOfLabel(MonthlyRows[i]["date"])}
            IN  /\ IsYearMonthLabel(MonthlyRows[i]["date"])
                /\ MonthlyRows[i]["launched"] = SumAt(S, DailyRows, "launched")
                /\ MonthlyRows[i]["destroyed"] = SumAt(S, DailyRows, "destroyed")
                /\ RoundedRate([launched  |-> SumAt(S, DailyRows, "launched"),
                                destroyed |-> SumAt(S, DailyRows, "destroyed"),
                                interception_rate |-> MonthlyRows[i]["interception_rate"]])

\* the first and the last day of January 2023, 100% and 12% as days, 22% as
\* the month
C5_Witness ==
    /\ data_monthly_rate # 0
    /\ Len(DailyRows) = 2
    /\ DailyRows[1]["date"] = <<2023, 1, 1>>
    /\ DailyRows[2]["date"] = <<2023, 1, 31>>
    /\ DailyRows[1]["interception_rate"] = <<"1", "0", "0", "%">>
    /\ DailyRows[2]["interception_rate"] = <<"1", "2", "%">>
    /\ Len(MonthlyRows) = 1
    /\ MonthlyRows[1]["date"] = <<"2", "0", "2", "3", "-", "0", "1">>
    /\ MonthlyRows[1]["launched"] = 9
    /\ MonthlyRows[1]["destroyed"] = 2
    /\ MonthlyRows[1]["interception_rate"] = <<"2", "2", "%">>

-----------------------------------------------------------------------------
(* C6 *)

\* the month-start day of a "YYYY-MM" label
MonthStartNumber(text) == DayNumber(<<MonthOfLabel(text)[1], MonthOfLabel(text)[2], 1>>)

\* C6: the filter returns, in their order, exactly the daily rows with
\* start <= date <= end and exactly the monthly rows with start <= month-start
\* date <= end; both outputs are empty when start > end.
C6_RangeFilter ==
    /\ pc \in {"render", "done"} /\ Loaded => filtered_data # 0 /\ filtered_monthly_data # 0
    /\ filtered_data # 0 =>
        LET lo == DayNumber(date_range[1])
            hi == DayNumber(date_range[2])
        IN  /\ FilteredDailyRows =
                 SelectSeq(DailyRows, LAMBDA r :
                    lo <= DayNumber(r["date"]) /\ DayNumber(r["date"]) <= hi)
            /\ FilteredMonthlyRows =
                 SelectSeq(MonthlyRows, LAMBDA r :
                    lo <= MonthStartNumber(r["date"]) /\ MonthStartNumber(r["date"]) <= hi)
            /\ heap[filtered_data].columns = heap[data_aggregated].columns
            /\ heap[filtered_monthly_data].columns = heap[data_monthly_rate].columns
            /\ lo > hi => FilteredDailyRows = <<>> /\ FilteredMonthlyRows = <<>>

\* 1 December to 31 January over events of 30 November and 31 January: one of
\* two days and two of three months are kept
C6_Witness ==
    /\ filtered_data # 0
    /\ date_range = << <<2022, 12, 1>>, <<2023, 1, 31>> >>
    /\ Len(DailyRows) = 2
    /\ Len(FilteredDailyRows) = 1
    /\ FilteredDailyRows[1]["date"] = <<2023, 1, 31>>
    /\ Len(MonthlyRows) = 3
    /\ Len(FilteredMonthlyRows) = 2
    /\ FilteredMonthlyRows[1]["date"] = <<"2", "0", "2", "2", "-", "1", "2">>

-----------------------------------------------------------------------------
(* C7 *)

\* C7: for a range with start <= end, every row of the filtered daily output
\* has its calendar month in the filtered monthly output.
C7_MonthOfEveryFilteredDay ==
    (filtered_data # 0 /\ DayNumber(date_range[1]) <= DayNumber(date_range[2])) =>
        \A i \in 1..Len(FilteredDailyRows) :
            \E j \in 1..Len(FilteredMonthlyRows) :
                MonthOfLabel(FilteredMonthlyRows[j]["date"])
                    = MonthOfDate(FilteredDailyRows[i]["date"])

-----------------------------------------------------------------------------
(* C8 *)

\* C8: when no aggregate row has more destroyed than launched (the counts
\* being non-negative), every daily and every monthly rate is between 0 and
\* 100.
C8_RateBound ==
    /\ (/\ data_aggregated # 0
        /\ \A i \in 1..Len(DailyRows) :
             /\ 0 <= DailyRows[i]["destroyed"]
             /\ DailyRows[i]["destroyed"] <= DailyRows[i]["launched"]) =>
         \A i \in 1..Len(DailyRows) :
            /\ IsPercentText(DailyRows[i]["interception_rate"])
            /\ RateNumber(DailyRows[i]["interception_rate"]) \in 0..100
    /\ (/\ data_monthly_rate # 0
        /\ \A i \in 1..Len(MonthlyRows) :
             /\ 0 <= MonthlyRows[i]["destroyed"]
             /\ MonthlyRows[i]["destroyed"] <= MonthlyRows[i]["launched"]) =>
         \A i \in 1..Len(MonthlyRows) :
            /\ IsPercentText(MonthlyRows[i]["interception_rate"])
            /\ RateNumber(MonthlyRows[i]["interception_rate"]) \in 0..100

\* a day with everything destroyed and a day with 3 of 8 destroyed
C8_Witness ==
    /\ data_monthly_rate # 0
    /\ Len(DailyRows) = 2
    /\ DailyRows[1]["launched"] = 1
    /\ DailyRows[1]["destroyed"] = 1
    /\ DailyRows[1]["interception_rate"] = <<"1", "0", "0", "%">>
    /\ DailyRows[2]["launched"] = 8
    /\ DailyRows[2]["destroyed"] = 3
    /\ DailyRows[2]["interception_rate"] = <<"3", "8", "%">>
    /\ Len(MonthlyRows) = 1
    /\ MonthlyRows[1]["interception_rate"] = <<"4", "4", "%">>

-----------------------------------------------------------------------------
(* C9 *)

\* the calendar date written at the start of a time_start text
DateOfTimeStart(text) ==
    <<ParseInt(SubSeq(text, 1, 4)), ParseInt(SubSeq(text, 6, 7)), ParseInt(SubSeq(text, 9, 10))>>

\* C9, as stated: after the Normalizer has returned, the table that was passed
\* to it has the columns and values it was passed with.
C9_ArgumentUnchanged ==
    Normalized => heap[data_processed] = csv[1]

\* C9, amended: remove_time and process_dataset change the table they are
\* given and return that same table; the script gives them a copy, so the
\* loaded table keeps its columns and values; the result has the columns date,
\* launched and destroyed and one row per event, in the events' order, with
\* the calendar date of the event's launch timestamp and its two counts.
C9_Normalizer ==
    /\ data # 0 => heap[data] = csv[1]
    /\ data_processed # 0 => data_processed # data
    /\ Normalized =>
        /\ heap[data_processed].columns = <<"date", "launched", "destroyed">>
        /\ Len(NormalizedRows) = Len(RawRows)
        /\ \A i \in 1..Len(RawRows) :
            /\ DOMAIN NormalizedRows[i] = {"date", "launched", "destroyed"}
            /\ NormalizedRows[i]["date"] = DateOfTimeStart(RawRows[i]["time_start"])
            /\ NormalizedRows[i]["launched"] = RawRows[i]["launched"]
            /\ NormalizedRows[i]["destroyed"] = RawRows[i]["destroyed"]

\* two equal events at 23:30 of 30 November: both are kept, dated 30 November
C9_Witness ==
    /\ Normalized
    /\ Len(RawRows) = 2
    /\ RawRows[1] = RawRows[2]
    /\ Len(RawRows[1]["time_start"]) = 16
    /\ Len(NormalizedRows) = 2
    /\ NormalizedRows[1]["date"] = <<2022, 11, 30>>
    /\ NormalizedRows[2]["date"] = <<2022, 11, 30>>

-----------------------------------------------------------------------------
(* C10 *)

PipelinePositions ==
    {"read_csv", "remove_time", "process_dataset", "aggregate_data", "date_selectors",
     "monthly", "filter", "render"}

\* C10: data_loaded starts false, becomes true only in the step where 'Get
\* Data' was pressed and download_dataset returned, never reverts to false; a
\* failing download ends the run with its exception and leaves the flag as it
\* was; and the pipeline runs in a run exactly when data_loaded is true at the
\* gate.
C10_DataLoadedGate ==
    /\ [][ ("data_loaded" \notin DOMAIN session_state
              /\ "data_loaded" \in DOMAIN session_state')
           => ~session_state'["data_loaded"] ]_vars
    /\ [](pc # "start" => "data_loaded" \in DOMAIN session_state)
    /\ [][ (~Loaded /\ Loaded') => (pc = "button" /\ pc' = "gate" /\ csv' = <<dataset>>) ]_vars
    /\ [][ Loaded => Loaded' ]_vars
    /\ [][ (pc = "button" /\ pc' = "raised")
           => (raised' = "download_dataset" /\ session_state' = session_state) ]_vars
    /\ [](raised = "download_dataset" => pc = "raised")
    /\ [][ (pc = "button" /\ pc' = "gate") => (Loaded' <=> (Loaded \/ csv' = <<dataset>>)) ]_vars
    /\ [](pc \in PipelinePositions => Loaded)
    /\ [][ (pc = "gate" /\ pc' # "gate") => (pc' = "read_csv" <=> Loaded) ]_vars
    /\ [][ pc' = "read_csv" => pc \in {"gate", "read_csv"} ]_vars

\* a download fails in a session whose data was loaded by an earlier run
C10_Witness ==
    /\ pc = "raised"
    /\ raised = "download_dataset"
    /\ Loaded
    /\ csv = <<dataset>>

====
